---- MODULE Spec2Model ----
(***************************************************************************)
(* A model of packages/drawer/src/views/DrawerItem.tsx: the DrawerItem     *)
(* component, the LinkPressable surface it renders, and the delivery of    *)
(* click / press events to the handlers the rendered element carries.      *)
(*                                                                         *)
(* JavaScript values are modelled as follows.  A props object is a         *)
(* function whose DOMAIN is the set of keys the object has; the value      *)
(* undefined is the string "undefined" and null is the string "null", so   *)
(* "key absent", "key present and undefined" and "key present and null"    *)
(* are three different things.  An optional destructured prop of           *)
(* DrawerItem is a sequence: << >> when not supplied, <<v>> when supplied. *)
(* A colour is a record [rgb, a] with the alpha channel in percent.        *)
(***************************************************************************)
EXTENDS Integers, Sequences, FiniteSets, TLC

VARIABLES
    OS,         \* Platform.OS of the host
    props,      \* the props DrawerItem was last rendered with
    pressable,  \* the props object LinkPressable was last rendered with
    tree,       \* what DrawerItem rendered around the surface
    surface,    \* the element LinkPressable rendered
    handled     \* << >>, or <<r>>: the outcome of the last event delivered

vars == <<OS, props, pressable, tree, surface, handled>>

(***************************************************************************)
(* Bounds of the model.                                                    *)
(***************************************************************************)
\* mouse buttons 0..MaxButton are delivered (0 primary, 1 auxiliary, ...)
MaxButton == 1

(***************************************************************************)
(* Values.                                                                 *)
(***************************************************************************)
Undefined == "undefined"
Null == "null"

Platforms == {"web", "ios", "android"}

\* useTheme(): the colour tokens the theme provider supplies
Theme == [primary |-> [rgb |-> "0a84ff", a |-> 100],
          text    |-> [rgb |-> "1c1c1e", a |-> 100]]

\* the handler the caller of DrawerItem supplies as onPress
CallerOnPress == "props.onPress"

\* Color(c).alpha(a).rgb().string(): the colour c with its alpha channel SET to a
ColorAlpha(c, a) == [c EXCEPT !.a = a]

Transparent == [rgb |-> "transparent", a |-> 0]

\* a destructuring default: `x = d` takes d exactly when x is not supplied
Default(x, d) == IF x = << >> THEN d ELSE x[1]

\* a property read: a key the object does not have reads as undefined
Get(p, k) == IF k \in DOMAIN p THEN p[k] ELSE Undefined

(***************************************************************************)
(* Events.  An event delivered to a press handler carries whether it is    *)
(* an instance of MouseEvent, the four modifier keys and the button        *)
(* (<< >> when the event has no button field, i.e. e.button == null).      *)
(***************************************************************************)
Buttons == {<< >>} \cup {<<b>> : b \in 0..MaxButton}

Events == [mouse : BOOLEAN, metaKey : BOOLEAN, altKey : BOOLEAN,
           ctrlKey : BOOLEAN, shiftKey : BOOLEAN, button : Buttons]

(***************************************************************************)
(* LinkPressable                                                           *)
(***************************************************************************)
\* the keys LinkPressable destructures out of its props; the others are `rest`
LinkPressableDestructured ==
    {"route", "href", "children", "style", "onPress", "onLongPress",
     "onPressIn", "onPressOut", "accessibilityRole", "accessibilityState"}

\* a rest that also keeps pressColor and pressOpacity away from the element
LinkPressableRestNoTuning(p) ==
    [k \in DOMAIN p \ (LinkPressableDestructured \cup {"pressColor", "pressOpacity"})
        |-> p[k]]

\* a rest from which accessibilityState was not destructured out
LinkPressableRestKeepsState(p) ==
    [k \in DOMAIN p \ (LinkPressableDestructured \ {"accessibilityState"}) |-> p[k]]

LinkPressableRest(p) ==
    [k \in DOMAIN p \ LinkPressableDestructured |-> p[k]]

\* the handler passed on as it came, null included
NullishKept(v) == v

\* `v ?? undefined`
NullishUndefined(v) == IF v \in {Null, Undefined} THEN Undefined ELSE v

\* an interceptor that forgets the shift key
LinkOnPressNoShift(e, rest, onPress) ==
    IF /\ e.mouse
       /\ ~(e.metaKey \/ e.altKey \/ e.ctrlKey)
       /\ (e.button = << >> \/ e.button = <<0>>)
    THEN [defaultPrevented |-> TRUE,
          invoked |-> IF "onPress" \in DOMAIN rest /\ onPress \notin {Null, Undefined}
                      THEN <<onPress>> ELSE << >>]
    ELSE [defaultPrevented |-> FALSE, invoked |-> << >>]

\* an interceptor without the `e instanceof MouseEvent` test
LinkOnPressAnyEvent(e, rest, onPress) ==
    IF /\ ~(e.metaKey \/ e.altKey \/ e.ctrlKey \/ e.shiftKey)
       /\ (e.button = << >> \/ e.button = <<0>>)
    THEN [defaultPrevented |-> TRUE,
          invoked |-> IF "onPress" \in DOMAIN rest /\ onPress \notin {Null, Undefined}
                      THEN <<onPress>> ELSE << >>]
    ELSE [defaultPrevented |-> FALSE, invoked |-> << >>]

\* the handler LinkPressable installs as the link's onPress, run on event e;
\* rest and onPress are the values the render closed over
LinkOnPress(e, rest, onPress) ==
    IF /\ e.mouse
       /\ ~(e.metaKey \/ e.altKey \/ e.ctrlKey \/ e.shiftKey)
       /\ (e.button = << >> \/ e.button = <<0>>)
    THEN [defaultPrevented |-> TRUE,
          invoked |-> IF "onPress" \in DOMAIN rest /\ onPress \notin {Null, Undefined}
                      THEN <<onPress>> ELSE << >>]
    ELSE [defaultPrevented |-> FALSE, invoked |-> << >>]

\* the <Link> element of the web branch
LinkElement(p) ==
    LET rest == LinkPressableRest(p) IN
    [type    |-> "Link",
     props   |-> ( "href"        :> Get(p, "href")
                @@ "action"      :> ("navigate:" \o Get(p, "route"))
                @@ "style"       :> ("button," \o Get(p, "style"))
                @@ "onPress"     :> "LinkOnPress"
                @@ "onLongPress" :> NullishUndefined(Get(p, "onLongPress"))
                @@ "onPressIn"   :> NullishUndefined(Get(p, "onPressIn"))
                @@ "onPressOut"  :> NullishUndefined(Get(p, "onPressOut"))
                @@ "children"    :> Get(p, "children")
                @@ rest ),
     rest    |-> rest,
     onPress |-> Get(p, "onPress")]

\* a pressable that is given the link's filtering handler
PressableElementFiltered(p) ==
    LET rest == LinkPressableRest(p) IN
    [type    |-> "PlatformPressable",
     props   |-> ( "accessibilityRole" :> Get(p, "accessibilityRole")
                @@ "onPress"           :> "LinkOnPress"
                @@ "children"          :> ("View:" \o Get(p, "children"))
                @@ rest ),
     rest    |-> rest,
     onPress |-> Get(p, "onPress")]

\* the <PlatformPressable> element of the other branch
PressableElement(p) ==
    LET rest == LinkPressableRest(p) IN
    [type    |-> "PlatformPressable",
     props   |-> ( "accessibilityRole" :> Get(p, "accessibilityRole")
                @@ "onPress"           :> Get(p, "onPress")
                @@ "children"          :> ("View:" \o Get(p, "children"))
                @@ rest ),
     rest    |-> rest,
     onPress |-> Get(p, "onPress")]

LinkPressable(os, p) ==
    IF os = "web" THEN LinkElement(p) ELSE PressableElement(p)

(***************************************************************************)
(* DrawerItem                                                              *)
(***************************************************************************)
\* React nodes an icon render function can return
NullNode == [type |-> "null"]

\* JavaScript truthiness of a node: null, undefined, false and '' are falsy
Truthy(n) ==
    CASE n.type = "null"      -> FALSE
      [] n.type = "undefined" -> FALSE
      [] n.type = "boolean"   -> n.value
      [] n.type = "string"    -> n.text # ""
      [] OTHER                -> TRUE

\* the caller's icon render functions, named by what they return
IconFns == {"iconElement", "iconNull", "iconFalse", "iconEmptyString"}

\* icon({ size, focused, color })
IconCall(fn, arg) ==
    CASE fn = "iconElement"     -> [type |-> "Icon", size |-> arg.size,
                                    focused |-> arg.focused, color |-> arg.color]
      [] fn = "iconNull"        -> NullNode
      [] fn = "iconFalse"       -> [type |-> "boolean", value |-> FALSE]
      [] fn = "iconEmptyString" -> [type |-> "string", text |-> ""]

\* a default derived from the theme's primary colour, whatever the override
ResolveActiveBackgroundColorFromTheme(supplied, activeTintColor) ==
    Default(supplied, ColorAlpha(Theme.primary, 12))

\* activeBackgroundColor = Color(activeTintColor).alpha(0.12).rgb().string()
ResolveActiveBackgroundColor(supplied, activeTintColor) ==
    Default(supplied, ColorAlpha(activeTintColor, 12))

\* const color = focused ? activeTintColor : inactiveTintColor
SelectColor(focused, activeTintColor, inactiveTintColor) ==
    IF focused THEN activeTintColor ELSE inactiveTintColor

\* a background chosen with the branches swapped
SelectBackgroundColorSwapped(focused, activeBackgroundColor, inactiveBackgroundColor) ==
    IF focused THEN inactiveBackgroundColor ELSE activeBackgroundColor

\* const backgroundColor = focused ? activeBackgroundColor : inactiveBackgroundColor
SelectBackgroundColor(focused, activeBackgroundColor, inactiveBackgroundColor) ==
    IF focused THEN activeBackgroundColor ELSE inactiveBackgroundColor

\* marginLeft: iconNode != null ? 32 : 0
LabelMarginLeftNotNull(iconNode) ==
    IF iconNode.type \notin {"null", "undefined"} THEN 32 ELSE 0

\* marginLeft: iconNode ? 32 : 0
LabelMarginLeft(iconNode) == IF Truthy(iconNode) THEN 32 ELSE 0

\* the props DrawerItem hands to <LinkPressable>
PressableProps(p, focused) ==
       "testID"             :> Default(p.testID, Undefined)
    @@ "onPress"            :> p.onPress
    @@ "style"              :> "wrapper"
    @@ "accessibilityLabel" :> Default(p.accessibilityLabel, Undefined)
    @@ "accessibilityRole"  :> "button"
    @@ "accessibilityState" :> (IF focused THEN "selected:true" ELSE "selected:false")
    @@ "pressColor"         :> Default(p.pressColor, Undefined)
    @@ "pressOpacity"       :> Default(p.pressOpacity, Undefined)
    @@ "route"              :> p.route
    @@ "href"               :> Default(p.href, Undefined)
    @@ "children"           :> "icon+label"

\* what DrawerItem(props) renders: the container and label around the surface,
\* and the props of the surface
DrawerItem(p) ==
    LET focused                 == Default(p.focused, FALSE)
        activeTintColor         == Default(p.activeTintColor, Theme.primary)
        inactiveTintColor       == Default(p.inactiveTintColor, ColorAlpha(Theme.text, 68))
        activeBackgroundColor   == ResolveActiveBackgroundColor(p.activeBackgroundColor,
                                                                activeTintColor)
        inactiveBackgroundColor == Default(p.inactiveBackgroundColor, Transparent)
        color           == SelectColor(focused, activeTintColor, inactiveTintColor)
        backgroundColor == SelectBackgroundColor(focused, activeBackgroundColor,
                                                 inactiveBackgroundColor)
        iconNode == IF p.icon # << >>
                    THEN IconCall(p.icon[1], [size |-> 24, focused |-> focused,
                                              color |-> color])
                    ELSE NullNode
    IN  [tree |-> [container |-> [backgroundColor |-> backgroundColor],
                   iconNode  |-> iconNode,
                   label     |-> [marginLeft |-> LabelMarginLeft(iconNode),
                                  color |-> color]],
         pressable |-> PressableProps(p, focused)]

(***************************************************************************)
(* Inputs.                                                                 *)
(***************************************************************************)
Optional(S) == {<< >>} \cup {<<v>> : v \in S}

\* the props a caller renders DrawerItem with: every combination of supplied
\* and not supplied overrides
ItemProps ==
    [route                   : {"Home"},
     href                    : {<<"/home">>},
     icon                    : Optional(IconFns),
     focused                 : Optional(BOOLEAN),
     activeTintColor         : Optional({[rgb |-> "112233", a |-> 50]}),
     inactiveTintColor       : Optional({[rgb |-> "445566", a |-> 100]}),
     activeBackgroundColor   : Optional({[rgb |-> "778899", a |-> 100]}),
     inactiveBackgroundColor : Optional({[rgb |-> "aabbcc", a |-> 100]}),
     onPress                 : {CallerOnPress},
     pressColor              : Optional({"rgba(0, 0, 0, .32)"}),
     pressOpacity            : Optional({"0.3"}),
     testID                  : {<< >>},
     accessibilityLabel      : {<< >>}]

\* the props of a drawer item that leaves the colours to the theme
PlainItemProps ==
    {p \in ItemProps : /\ p.activeTintColor = << >>
                       /\ p.inactiveTintColor = << >>
                       /\ p.activeBackgroundColor = << >>
                       /\ p.inactiveBackgroundColor = << >>
                       /\ p.icon \in {<< >>, <<"iconElement">>}}

\* props that differ from p in at most one field
OneChange(p) ==
    {[p EXCEPT !.icon = v] : v \in Optional(IconFns)}
    \cup {[p EXCEPT !.focused = v] : v \in Optional(BOOLEAN)}
    \cup {q \in ItemProps : \E f \in {"activeTintColor", "inactiveTintColor",
                                      "activeBackgroundColor", "inactiveBackgroundColor",
                                      "pressColor", "pressOpacity"} :
                               \A g \in DOMAIN p : g # f => q[g] = p[g]}

\* the secondary handlers a user of LinkPressable may pass
SecondaryKeys == {"onLongPress", "onPressIn", "onPressOut"}

\* the handler a user of LinkPressable passes under key k
Handler(k) == "props." \o k

\* the props objects LinkPressable is rendered with when it is used on its own:
\* onPress and each secondary handler absent, undefined, null or a handler
SurfaceProps ==
    {sec @@ prs @@ ( "route"              :> "Home"
                  @@ "href"               :> "/home"
                  @@ "children"           :> "icon+label"
                  @@ "style"              :> "wrapper"
                  @@ "accessibilityRole"  :> "button"
                  @@ "accessibilityState" :> "selected:false"
                  @@ "pressColor"         :> "rgba(0, 0, 0, .32)" ) :
        sec \in UNION {{f \in [K -> {Undefined, Null} \cup {Handler(k) : k \in K}] :
                           \A k \in K : f[k] \in {Undefined, Null, Handler(k)}} :
                       K \in SUBSET SecondaryKeys},
        prs \in {<< >>, "onPress" :> Undefined, "onPress" :> CallerOnPress}}

\* the props objects that differ from p in at most one key
OneKeyChange(p) ==
    {q \in SurfaceProps :
        \E k \in DOMAIN p \cup DOMAIN q :
            \A g \in (DOMAIN p \cup DOMAIN q) \ {k} :
                g \in DOMAIN p /\ g \in DOMAIN q /\ p[g] = q[g]}

(***************************************************************************)
(* The state machine.                                                      *)
(***************************************************************************)
Rendered(os, p) ==
    /\ props' = p
    /\ tree' = DrawerItem(p).tree
    /\ pressable' = DrawerItem(p).pressable
    /\ surface' = LinkPressable(os, DrawerItem(p).pressable)

\* the first render of a drawer item on some host
InitWith(space) ==
    /\ OS \in Platforms
    /\ props \in space
    /\ tree = DrawerItem(props).tree
    /\ pressable = DrawerItem(props).pressable
    /\ surface = LinkPressable(OS, pressable)
    /\ handled = << >>

Init == InitWith(PlainItemProps)

InitItem == InitWith(ItemProps)

\* the parent re-renders the item with another focused flag
Refocus ==
    /\ \E f \in Optional(BOOLEAN) :
          /\ f # props.focused
          /\ Rendered(OS, [props EXCEPT !.focused = f])
    /\ UNCHANGED <<OS, handled>>

\* the parent re-renders the item with one prop changed
Rerender ==
    /\ \E p \in OneChange(props) :
          /\ p # props
          /\ Rendered(OS, p)
    /\ UNCHANGED <<OS, handled>>

\* the rendered element's handler for `key` is run on event e
Deliver(key, e) ==
    LET h == Get(surface.props, key)
        r == IF h = "LinkOnPress" THEN LinkOnPress(e, surface.rest, surface.onPress)
             ELSE IF h \in {Null, Undefined}
                  THEN [defaultPrevented |-> FALSE, invoked |-> << >>]
                  ELSE [defaultPrevented |-> FALSE, invoked |-> <<h>>]
    IN  handled' = <<[type |-> surface.type, key |-> key, e |-> e,
                      onPress |-> surface.onPress,
                      defaultPrevented |-> r.defaultPrevented,
                      invoked |-> r.invoked]>>

\* the browser delivers a click on the link
Click ==
    /\ surface.type = "Link"
    /\ \E e \in Events : Deliver("onPress", e)
    /\ UNCHANGED <<OS, props, pressable, tree, surface>>

\* the native responder delivers a press on the pressable
Press ==
    /\ surface.type = "PlatformPressable"
    /\ \E e \in Events : Deliver("onPress", e)
    /\ UNCHANGED <<OS, props, pressable, tree, surface>>

Next == Click \/ Press \/ Refocus

Spec == Init /\ [][Next]_vars

NextItem == Rerender

SpecItem == InitItem /\ [][NextItem]_vars

\* LinkPressable rendered on its own, as a function of its props: there is no
\* enclosing item
InitSurface ==
    /\ OS \in Platforms
    /\ props = << >>
    /\ tree = << >>
    /\ pressable \in SurfaceProps
    /\ surface = LinkPressable(OS, pressable)
    /\ handled = << >>

\* LinkPressable is rendered again with one prop changed
RenderSurface ==
    /\ \E p \in OneKeyChange(pressable) :
          /\ p # pressable
          /\ pressable' = p
          /\ surface' = LinkPressable(OS, p)
    /\ UNCHANGED <<OS, props, tree, handled>>

\* a responder event with no mouse fields
GestureEvent ==
    [mouse |-> FALSE, metaKey |-> FALSE, altKey |-> FALSE, ctrlKey |-> FALSE,
     shiftKey |-> FALSE, button |-> << >>]

\* the rendered element runs one of its secondary handlers
Gesture ==
    /\ \E k \in SecondaryKeys : Deliver(k, GestureEvent)
    /\ UNCHANGED <<OS, props, pressable, tree, surface>>

NextSurface == RenderSurface \/ Gesture

SpecSurface == InitSurface /\ [][NextSurface]_vars

(***************************************************************************)
(* Properties.                                                             *)
(***************************************************************************)
Modified(e) == e.metaKey \/ e.altKey \/ e.ctrlKey \/ e.shiftKey

Primary(e) == e.button = << >> \/ e.button = <<0>>

\* the last event was delivered to the onPress handler of an element of type t
PressOn(t) ==
    /\ handled # << >>
    /\ handled[1].type = t
    /\ handled[1].key = "onPress"

\* C1: in link mode, a pointer click with the primary button and no modifier
\* key calls the caller's onPress exactly once and calls preventDefault.
C1_PrimaryClickActivatesOnce ==
    (PressOn("Link") /\ handled[1].e.mouse
        /\ ~Modified(handled[1].e) /\ Primary(handled[1].e))
    => /\ handled[1].invoked = <<CallerOnPress>>
       /\ handled[1].defaultPrevented

\* C2: in link mode, a click with a modifier key held, or with a button that is
\* present and not 0, is passed through: onPress is not called and
\* preventDefault is not called, whatever else the event carries.
C2_ModifiedOrSecondaryClickPassesThrough ==
    (PressOn("Link") /\ (Modified(handled[1].e) \/ ~Primary(handled[1].e)))
    => /\ handled[1].invoked = << >>
       /\ ~handled[1].defaultPrevented

C2_Witness ==
    /\ PressOn("Link")
    /\ handled[1].e.mouse /\ handled[1].e.shiftKey /\ ~handled[1].e.metaKey
    /\ handled[1].e.button = <<0>>
    /\ handled[1].onPress = CallerOnPress
    /\ ~handled[1].defaultPrevented

\* C3: in gesture mode the caller's onPress is the element's press handler, and
\* every press calls it exactly once, whatever modifier keys or button the
\* event carries; nothing is filtered and preventDefault is not called.
C3_GesturePressActivatesOnce ==
    /\ surface.type = "PlatformPressable"
          => surface.props["onPress"] = Get(pressable, "onPress")
    /\ PressOn("PlatformPressable")
          => /\ handled[1].invoked = <<CallerOnPress>>
             /\ ~handled[1].defaultPrevented

C3_Witness ==
    /\ PressOn("PlatformPressable")
    /\ handled[1].e.shiftKey /\ handled[1].e.ctrlKey
    /\ handled[1].e.button = <<1>>
    /\ handled[1].invoked = <<CallerOnPress>>

\* C9: in link mode, an event that is not a MouseEvent instance is not
\* intercepted: onPress is not called and preventDefault is not called,
\* whatever its modifier keys and button are.
C9_NonMouseEventNotIntercepted ==
    (PressOn("Link") /\ ~handled[1].e.mouse)
    => /\ handled[1].invoked = << >>
       /\ ~handled[1].defaultPrevented

C9_Witness ==
    /\ PressOn("Link")
    /\ ~handled[1].e.mouse /\ ~Modified(handled[1].e) /\ Primary(handled[1].e)
    /\ handled[1].onPress = CallerOnPress
    /\ ~handled[1].defaultPrevented

\* the colours a render resolves, written out from the props and the theme
ExpectedActiveTint ==
    IF props.activeTintColor = << >> THEN Theme.primary ELSE props.activeTintColor[1]

ExpectedInactiveTint ==
    IF props.inactiveTintColor = << >>
    THEN [rgb |-> Theme.text.rgb, a |-> 68] ELSE props.inactiveTintColor[1]

ExpectedActiveBackground ==
    IF props.activeBackgroundColor = << >>
    THEN [rgb |-> ExpectedActiveTint.rgb, a |-> 12] ELSE props.activeBackgroundColor[1]

ExpectedInactiveBackground ==
    IF props.inactiveBackgroundColor = << >>
    THEN Transparent ELSE props.inactiveBackgroundColor[1]

\* C4: the foreground and background colours rendered are the resolved active
\* pair when focused is true, and the resolved inactive pair when it is false
\* or absent; never one of each.
C4_ActiveOrInactivePair ==
    /\ IF props.focused = <<TRUE>>
       THEN /\ tree.label.color = ExpectedActiveTint
            /\ tree.container.backgroundColor = ExpectedActiveBackground
       ELSE /\ tree.label.color = ExpectedInactiveTint
            /\ tree.container.backgroundColor = ExpectedInactiveBackground
    /\ tree.iconNode.type = "Icon" => tree.iconNode.color = tree.label.color

C4_Witness ==
    /\ props.focused = << >>
    /\ props.activeTintColor # << >> /\ props.activeBackgroundColor # << >>
    /\ props.inactiveTintColor # << >> /\ props.inactiveBackgroundColor = << >>
    /\ tree.label.color = props.inactiveTintColor[1]
    /\ tree.container.backgroundColor = Transparent

\* C5: when activeBackgroundColor is not supplied, the active background is the
\* resolved activeTintColor (the override if supplied, else the theme's
\* primary) with alpha 0.12; when it is supplied, it is used unchanged.
C5_ActiveBackgroundFromResolvedTint ==
    props.focused = <<TRUE>>
    => tree.container.backgroundColor =
          IF props.activeBackgroundColor # << >> THEN props.activeBackgroundColor[1]
          ELSE IF props.activeTintColor # << >>
               THEN [rgb |-> props.activeTintColor[1].rgb, a |-> 12]
               ELSE [rgb |-> Theme.primary.rgb, a |-> 12]

C5_Witness ==
    /\ props.focused = <<TRUE>>
    /\ props.activeBackgroundColor = << >>
    /\ props.activeTintColor = <<[rgb |-> "112233", a |-> 50]>>
    /\ tree.container.backgroundColor = [rgb |-> "112233", a |-> 12]

\* C6, as claimed: the label's left margin is 32 whenever an icon render
\* function is supplied, also when it returns an empty or null node, and 0
\* whenever none is supplied.
C6_MarginByIconFunction ==
    tree.label.marginLeft = IF props.icon # << >> THEN 32 ELSE 0

\* C6, amended: the label's left margin is 32 when an icon render function is
\* supplied and the node it returns is truthy, and 0 when none is supplied or
\* the node it returns is falsy (null, false, an empty string).
C6_MarginByIconNode ==
    tree.label.marginLeft =
        IF props.icon # << >> /\ tree.iconNode.type = "Icon" THEN 32 ELSE 0

C6_Witness ==
    /\ props.icon = <<"iconNull">>
    /\ tree.iconNode = NullNode
    /\ tree.label.marginLeft = 0

\* a secondary handler counts as supplied when the key is there with a handler
Supplied(k) == k \in DOMAIN pressable /\ pressable[k] \notin {Null, Undefined}

\* C7, as claimed: in link mode a supplied secondary handler is forwarded to
\* the link element, and one that is not supplied, or is null, is omitted:
\* its key is absent from the element's props.
C7_AbsentHandlerOmitted ==
    surface.type = "Link" =>
        \A k \in SecondaryKeys :
            IF Supplied(k)
            THEN k \in DOMAIN surface.props /\ surface.props[k] = pressable[k]
            ELSE k \notin DOMAIN surface.props

\* C7, amended: in link mode a supplied secondary handler is forwarded to the
\* link element, and one that is not supplied, or is null, is passed as
\* undefined: its key is present in the element's props with the value
\* undefined, never null.
C7_AbsentHandlerUndefined ==
    surface.type = "Link" =>
        \A k \in SecondaryKeys :
            /\ k \in DOMAIN surface.props
            /\ surface.props[k] = IF Supplied(k) THEN pressable[k] ELSE Undefined

C7_Witness ==
    /\ surface.type = "Link"
    /\ "onLongPress" \in DOMAIN pressable /\ pressable["onLongPress"] = Null
    /\ "onPressOut" \notin DOMAIN pressable
    /\ Supplied("onPressIn")
    /\ surface.props["onLongPress"] = Undefined
    /\ surface.props["onPressOut"] = Undefined
    /\ surface.props["onPressIn"] = Handler("onPressIn")

TuningKeys == {"pressColor", "pressOpacity"}

\* C8, as claimed: in link mode pressColor and pressOpacity are not among the
\* props forwarded to the link element, whatever values are supplied.
C8_TuningNotForwardedToLink ==
    surface.type = "Link" => \A k \in TuningKeys : k \notin DOMAIN surface.props

\* C8, amended: the surface does not strip pressColor and pressOpacity in
\* either mode: in link mode as in gesture mode each is among the props
\* forwarded to the rendered element, with the value the caller supplied
\* (undefined when not supplied).
C8_TuningForwardedInBothModes ==
    \A k \in TuningKeys :
        /\ k \in DOMAIN surface.props
        /\ surface.props[k] = IF props[k] = << >> THEN Undefined ELSE props[k][1]

C8_Witness ==
    /\ surface.type = "Link"
    /\ props.pressColor # << >> /\ props.pressOpacity # << >>
    /\ surface.props["pressColor"] = props.pressColor[1]
    /\ surface.props["pressOpacity"] = props.pressOpacity[1]

\* C10: the accessibilityState (selected = focused) that DrawerItem hands to
\* the surface is not among the props of the rendered element, in link mode
\* and in gesture mode alike.
C10_AccessibilityStateStripped ==
    /\ "accessibilityState" \in DOMAIN pressable
    /\ pressable["accessibilityState"] =
          (IF props.focused = <<TRUE>> THEN "selected:true" ELSE "selected:false")
    /\ "accessibilityState" \notin DOMAIN surface.props

C10_Witness ==
    /\ surface.type = "PlatformPressable"
    /\ props.focused = <<TRUE>>
    /\ pressable["accessibilityState"] = "selected:true"
    /\ "accessibilityState" \notin DOMAIN surface.props

====
